---- MODULE Spec2Model ----
(***************************************************************************)
(* Model of src/data/v2/last_quote.rs: the GET /v2/stocks/quotes/latest    *)
(* endpoint (request type LastQuoteReq, response decoding Quote::parse,    *)
(* the status table of the Get endpoint and its parse / parse_err).        *)
(*                                                                         *)
(* Text is modelled as a sequence of tokens (a token is a character, or a  *)
(* whole word where the characters play no role).  A response body is a    *)
(* JSON document tree, or bytes that are not JSON.                         *)
(***************************************************************************)
EXTENDS Integers, Sequences, FiniteSets, TLC

VARIABLES
  pc,        \* position of the call: idle, new, built, sent, returned, done, aborted
  args,      \* the Vec<String> handed to LastQuoteReq::new (kept for reference)
  input,     \* the LastQuoteReq
  request,   \* the path and query derived from the input
  status,    \* status code returned by the transport
  body,      \* body bytes returned by the transport
  result,    \* what the caller receives
  first,     \* result of an earlier evaluation of the same (input, status, body)
  nSend,     \* transport calls made
  nParse,    \* invocations of Get::parse
  nParseErr  \* invocations of Get::parse_err

vars == <<pc, args, input, request, status, body, result, first, nSend, nParse, nParseErr>>

(***************************************************************************)
(* Bounds of the model.                                                    *)
(***************************************************************************)
\* longest symbol, in characters
MaxSymLen == 2
\* most symbols handed to LastQuoteReq::new
MaxSymbols == 2
\* most members of the "quotes" object of a response
MaxQuotes == 2

(***************************************************************************)
(* Sequence helpers.                                                       *)
(***************************************************************************)
SeqsUpTo(S, n) == UNION {[1..k -> S] : k \in 0..n}

Range(s) == {s[i] : i \in 1..Len(s)}

RECURSIVE Orders(_)
\* every sequence that lists each element of the set S exactly once
Orders(S) ==
  IF S = {} THEN {<<>>}
  ELSE UNION {{<<x>> \o o : o \in Orders(S \ {x})} : x \in S}

RECURSIVE Gcd(_, _)
Gcd(a, b) == IF b = 0 THEN a ELSE Gcd(b, a % b)

RECURSIVE Pow10(_)
Pow10(e) == IF e = 0 THEN 1 ELSE 10 * Pow10(e - 1)

(***************************************************************************)
(* JSON documents.  One record shape for every value: k is the kind, (n,e) *)
(* the decimal literal n * 10^-e of a number, s the text of a string, o    *)
(* the members of an object in document order (pairs <<name, value>>; a    *)
(* name may repeat, as JSON text allows).  Kind "raw" is a body that is    *)
(* not JSON at all.  Arrays, and integer literals above u64::MAX, are not  *)
(* part of the modelled documents.                                         *)
(***************************************************************************)
JVal(k, n, e, s, o) == [k |-> k, n |-> n, e |-> e, s |-> s, o |-> o]
JNull == JVal("null", 0, 0, <<>>, <<>>)
JBool == JVal("bool", 1, 0, <<>>, <<>>)
JNum(n, e) == JVal("num", n, e, <<>>, <<>>)
JStr(s) == JVal("str", 0, 0, s, <<>>)
JObj(o) == JVal("obj", 0, 0, <<>>, o)
Raw(s) == JVal("raw", 0, 0, s, <<>>)

\* the values of the members named name, in document order
Members(v, name) == [i \in 1..Len(SelectSeq(v.o, LAMBDA m : m[1] = name)) |->
                       SelectSeq(v.o, LAMBDA m : m[1] = name)[i][2]]

\* a member name or any other one-word text
W(word) == <<word>>

(***************************************************************************)
(* Typed values.  A decoder returns [ok, val]: val is the decoded value    *)
(* when ok, and a placeholder of the same shape otherwise.                 *)
(***************************************************************************)
Decoded(val) == [ok |-> TRUE, val |-> val]
Failed(placeholder) == [ok |-> FALSE, val |-> placeholder]

\* num_decimal::Num, a rational number in lowest terms
Num(num, den) == [num |-> num \div Gcd(IF num < 0 THEN -num ELSE num, den),
                  den |-> den \div Gcd(IF num < 0 THEN -num ELSE num, den)]

\* Deserialize for Num (fields ap, bp): any JSON number, exactly
Num_from(v) ==
  IF v.k = "num" THEN Decoded(Num(v.n, Pow10(v.e))) ELSE Failed(Num(0, 1))

\* Deserialize for u64 (fields as, bs): a non-negative integer literal
u64_from(v) ==
  IF v.k = "num" /\ v.e = 0 /\ v.n >= 0 THEN Decoded(v.n) ELSE Failed(0)

\* Deserialize for DateTime<Utc> (field t): an RFC 3339 string; the value is
\* the instant, in nanoseconds after 2022-04-12T17:26:44Z
DateTime_from(v) ==
  IF v.k # "str" THEN Failed(0)
  ELSE CASE v.s = W("2022-04-12T17:26:45.009288296Z") -> Decoded(1009288296)
         [] v.s = W("2022-04-12T19:26:45.009288296+02:00") -> Decoded(1009288296)
         [] v.s = W("2022-04-12T17:26:44.962998616Z") -> Decoded(962998616)
         [] OTHER -> Failed(0)

\* the five members a QuoteDataPoint requires
PointFields == {W("t"), W("ap"), W("as"), W("bp"), W("bs")}

NoPoint == [t |-> 0, ap |-> Num(0, 1), as |-> 0, bp |-> Num(0, 1), bs |-> 0]

\* derived Deserialize for QuoteDataPoint: an object with each of t, ap, as,
\* bp, bs exactly once and of its type; members of other names are ignored
QuoteDataPoint_from(v) ==
  IF /\ v.k = "obj"
     /\ \A f \in PointFields : Len(Members(v, f)) = 1
     /\ DateTime_from(Members(v, W("t"))[1]).ok
     /\ Num_from(Members(v, W("ap"))[1]).ok
     /\ u64_from(Members(v, W("as"))[1]).ok
     /\ Num_from(Members(v, W("bp"))[1]).ok
     /\ u64_from(Members(v, W("bs"))[1]).ok
  THEN Decoded([t  |-> DateTime_from(Members(v, W("t"))[1]).val,
                ap |-> Num_from(Members(v, W("ap"))[1]).val,
                as |-> u64_from(Members(v, W("as"))[1]).val,
                bp |-> Num_from(Members(v, W("bp"))[1]).val,
                bs |-> u64_from(Members(v, W("bs"))[1]).val])
  ELSE Failed(NoPoint)

\* HashMap<String, QuoteDataPoint> filled by inserting the members of the
\* object v in document order: a repeated key keeps its last value
HashMap_from(v) ==
  [key \in {v.o[i][1] : i \in 1..Len(v.o)} |->
     QuoteDataPoint_from(Members(v, key)[Len(Members(v, key))]).val]

\* a decoder of LastQuoteResponse that skips the records that do not decode
LastQuoteResponse_from_lenient(b) ==
  IF /\ b.k = "obj"
     /\ Len(Members(b, W("quotes"))) = 1
     /\ Members(b, W("quotes"))[1].k = "obj"
  THEN Decoded([quotes |->
         HashMap_from(JObj(SelectSeq(Members(b, W("quotes"))[1].o,
                                     LAMBDA m : QuoteDataPoint_from(m[2]).ok)))])
  ELSE Failed([quotes |-> <<>>])

\* derived Deserialize for LastQuoteResponse: an object with the member
\* "quotes" exactly once, itself an object whose every value is a
\* QuoteDataPoint; members of other names are ignored
LastQuoteResponse_from(b) ==
  IF /\ b.k = "obj"
     /\ Len(Members(b, W("quotes"))) = 1
     /\ Members(b, W("quotes"))[1].k = "obj"
     /\ \A i \in 1..Len(Members(b, W("quotes"))[1].o) :
          QuoteDataPoint_from(Members(b, W("quotes"))[1].o[i][2]).ok
  THEN Decoded([quotes |-> HashMap_from(Members(b, W("quotes"))[1])])
  ELSE Failed([quotes |-> <<>>])

\* HashMap::into_iter: the keys in an order the hasher decides; each map has
\* its own hasher state, so any order is possible on any evaluation
into_iter(m) == Orders(DOMAIN m)

\* a Quote::from that takes each size from the other side of the book
Quote_from_swapped(symbol, point) ==
  [time      |-> point.t,
   ask_price |-> point.ap,
   ask_size  |-> point.bs,
   bid_price |-> point.bp,
   bid_size  |-> point.as,
   symbol    |-> symbol]

\* Quote::from
Quote_from(symbol, point) ==
  [time      |-> point.t,
   ask_price |-> point.ap,
   ask_size  |-> point.as,
   bid_price |-> point.bp,
   bid_size  |-> point.bs,
   symbol    |-> symbol]

\* a Quote::parse that stamps each quote with the time of decoding
Quote_parse_clock(b) ==
  IF LastQuoteResponse_from(b).ok
  THEN {Decoded([i \in 1..Len(o) |->
                   [Quote_from(o[i], LastQuoteResponse_from(b).val.quotes[o[i]])
                      EXCEPT !.time = now]])
          : o \in into_iter(LastQuoteResponse_from(b).val.quotes),
            now \in {1009288296, 1009288297}}
  ELSE {Failed(<<>>)}

\* Quote::parse: the results it can return for a body
Quote_parse(b) ==
  IF LastQuoteResponse_from(b).ok
  THEN {Decoded([i \in 1..Len(o) |->
                   Quote_from(o[i], LastQuoteResponse_from(b).val.quotes[o[i]])])
          : o \in into_iter(LastQuoteResponse_from(b).val.quotes)}
  ELSE {Failed(<<>>)}

(***************************************************************************)
(* The request.                                                            *)
(***************************************************************************)
RECURSIVE join(_, _)
\* [String]::join: the elements with sep between neighbours
join(strs, sep) ==
  IF Len(strs) = 0 THEN <<>>
  ELSE IF Len(strs) = 1 THEN strs[1]
  ELSE strs[1] \o <<sep>> \o join(Tail(strs), sep)

\* the variants of crate::data::v2::Feed
Feed == {"IEX", "SIP"}

\* Serialize for Feed: the name of the variant on the wire
Feed_name(f) == IF f = "IEX" THEN W("iex") ELSE W("sip")

RECURSIVE dedup(_)
\* the list without the elements equal to their successor
dedup(strs) ==
  IF Len(strs) <= 1 THEN strs
  ELSE IF strs[1] = strs[2] THEN dedup(Tail(strs))
  ELSE <<strs[1]>> \o dedup(Tail(strs))

\* a LastQuoteReq::new that drops repeated symbols
LastQuoteReq_new_dedup(symbols) == [symbols |-> join(dedup(symbols), ","), feed |-> "None"]

\* LastQuoteReq::new
LastQuoteReq_new(symbols) == [symbols |-> join(symbols, ","), feed |-> "None"]

\* LastQuoteReq::with_feed
with_feed(self, f) == [self EXCEPT !.feed = f]

\* percent-encoding of one character of a query value
urlencode(c) == IF c = "," THEN "%2C" ELSE c

\* Get::path
path(req) == W("/v2/stocks/quotes/latest")

\* a query that serializes a None feed as a parameter with an empty value
query_emptyfeed(req) ==
  W("symbols") \o <<"=">> \o [i \in 1..Len(req.symbols) |-> urlencode(req.symbols[i])]
    \o <<"&">> \o W("feed") \o <<"=">> \o (IF req.feed = "None" THEN <<>> ELSE Feed_name(req.feed))

\* Get::query: serde_urlencoded::to_string of the LastQuoteReq, field by field
\* in declaration order, a None field skipped
query(req) ==
  W("symbols") \o <<"=">> \o [i \in 1..Len(req.symbols) |-> urlencode(req.symbols[i])]
    \o (IF req.feed = "None" THEN <<>> ELSE <<"&">> \o W("feed") \o <<"=">> \o Feed_name(req.feed))

(***************************************************************************)
(* The endpoint: status table, decoding, outcome of a call.                *)
(***************************************************************************)
\* StatusCode::OK
OK == 200
\* StatusCode::UNPROCESSABLE_ENTITY
UNPROCESSABLE_ENTITY == 422

\* a status table that also lists 422 among the success statuses
OkStatuses_with422 == {OK, UNPROCESSABLE_ENTITY}

\* the statuses the endpoint registers as success
OkStatuses == {OK}

\* a status table that also registers 404 as InvalidInput
ErrStatuses_with404 == {<<UNPROCESSABLE_ENTITY, "InvalidInput">>, <<404, "InvalidInput">>}

\* the statuses the endpoint registers as errors, each with its GetError variant
ErrStatuses == {<<UNPROCESSABLE_ENTITY, "InvalidInput">>}

\* no bytes at all (as opposed to an empty body)
Absent == JVal("none", 0, 0, <<>>, <<>>)

NoApiError == [code |-> 0, message |-> <<>>]

\* Deserialize for crate::ApiError: an object with a numeric code and a
\* message string, each exactly once
ApiError_from(b) ==
  IF /\ b.k = "obj"
     /\ Len(Members(b, W("code"))) = 1
     /\ Len(Members(b, W("message"))) = 1
     /\ u64_from(Members(b, W("code"))[1]).ok
     /\ Members(b, W("message"))[1].k = "str"
  THEN Decoded([code |-> u64_from(Members(b, W("code"))[1]).val,
                message |-> Members(b, W("message"))[1].s])
  ELSE Failed(NoApiError)

\* <[u8]>::to_vec: a copy of the bytes
to_vec(b) == b

\* what the caller of an endpoint receives.  tag: Ok (the Output),
\* ConversionError, a GetError variant (InvalidInput), UnexpectedStatus
Outcome(tag, quotes, st, structured, api, bytes) ==
  [tag |-> tag, quotes |-> quotes, status |-> st,
   structured |-> structured, api |-> api, bytes |-> bytes]

NoResult == Outcome("none", <<>>, 0, FALSE, NoApiError, Absent)

\* a Get::parse that unwraps the result of Quote::parse: it panics on a
\* body that does not decode, and the call has no outcome
parse_unwrap(b) ==
  {Outcome("Ok", r.val, 0, FALSE, NoApiError, Absent) : r \in {x \in Quote_parse(b) : x.ok}}

\* Get::parse: Quote::parse with its error converted to ConversionError
parse(b) ==
  {IF r.ok THEN Outcome("Ok", r.val, 0, FALSE, NoApiError, Absent)
           ELSE Outcome("ConversionError", <<>>, 0, FALSE, NoApiError, Absent)
     : r \in Quote_parse(b)}

\* a Get::parse_err that returns an empty Vec when the body does not decode
parse_err_lossy(b) ==
  IF ApiError_from(b).ok
  THEN [ok |-> TRUE, api |-> ApiError_from(b).val, bytes |-> Absent]
  ELSE [ok |-> FALSE, api |-> NoApiError, bytes |-> Raw(<<>>)]

\* Get::parse_err: Result<ApiError, Vec<u8>>
parse_err(b) ==
  IF ApiError_from(b).ok
  THEN [ok |-> TRUE, api |-> ApiError_from(b).val, bytes |-> Absent]
  ELSE [ok |-> FALSE, api |-> NoApiError, bytes |-> to_vec(b)]

\* the GetError variant registered for a status, "" when there is none
ErrVariant(st) ==
  IF \E e \in ErrStatuses : e[1] = st
  THEN (CHOOSE e \in ErrStatuses : e[1] = st)[2]
  ELSE ""

\* the routing of a response by its status: the outcomes the call can have
Get_evaluate(st, b) ==
  IF st \in OkStatuses THEN parse(b)
  ELSE IF ErrVariant(st) # ""
    THEN {Outcome(ErrVariant(st), <<>>, 0, parse_err(b).ok, parse_err(b).api, parse_err(b).bytes)}
    ELSE {Outcome("UnexpectedStatus", <<>>, st, FALSE, NoApiError, b)}

(***************************************************************************)
(* The inputs the model draws from.                                        *)
(***************************************************************************)
\* the characters of a symbol; the comma is the one the join also inserts
SymbolChars == {"A", "B", ","}

Symbols == SeqsUpTo(SymbolChars, MaxSymLen)

SymbolLists == SeqsUpTo(Symbols, MaxSymbols)

\* the symbol lists of the calls whose response is followed
CallSymbolLists == {<<W("A")>>, <<W("A"), W("B")>>}

\* the status codes the transport returns
StatusCodes == {200, 404, 422, 500}

\* the object p with member f removed
Drop(p, f) == JObj(SelectSeq(p.o, LAMBDA m : m[1] # f))

\* the object p with the value of member f replaced by v
Put(p, f, v) == JObj([i \in 1..Len(p.o) |-> IF p.o[i][1] = f THEN <<f, v>> ELSE p.o[i]])

\* the TSLA record of the reference response (without its array member)
PointTSLA ==
  JObj(<< <<W("t"), JStr(W("2022-04-12T17:26:45.009288296Z"))>>,
          <<W("ax"), JStr(W("V"))>>,
          <<W("ap"), JNum(1020, 0)>>,
          <<W("as"), JNum(3, 0)>>,
          <<W("bx"), JStr(W("V"))>>,
          <<W("bp"), JNum(990, 0)>>,
          <<W("bs"), JNum(5, 0)>>,
          <<W("z"), JStr(W("C"))>> >>)

\* the AAPL record of the reference response, with only the required members,
\* in another order, and its ask price written 170.0
PointAAPL ==
  JObj(<< <<W("bs"), JNum(1, 0)>>,
          <<W("bp"), JNum(16803, 2)>>,
          <<W("as"), JNum(1, 0)>>,
          <<W("ap"), JNum(1700, 1)>>,
          <<W("t"), JStr(W("2022-04-12T17:26:44.962998616Z"))>> >>)

GoodPoints == {PointTSLA, PointAAPL}

\* values that are no QuoteDataPoint: a member missing, a member of the wrong
\* type, a member twice, a value that is no object
BadPoints ==
  {Drop(PointAAPL, f) : f \in PointFields}
    \cup {Put(PointAAPL, f, JBool) : f \in PointFields}
    \cup {Put(PointAAPL, W("t"), JStr(W("yesterday"))),
          Put(PointAAPL, W("as"), JNum(-1, 0)),
          Put(PointAAPL, W("bs"), JNum(15, 1)),
          JObj(PointAAPL.o \o << <<W("t"), JStr(W("2022-04-12T17:26:45.009288296Z"))>> >>),
          JNull}

Keys == {W("A"), W("B")}

GoodEntries == {<<k, p>> : k \in Keys, p \in GoodPoints}

BadEntries == {<<W("A"), p>> : p \in BadPoints}

\* the sequence s with x inserted after its first i elements
InsertAt(s, i, x) == SubSeq(s, 1, i) \o <<x>> \o SubSeq(s, i + 1, Len(s))

\* the "quotes" objects: up to MaxQuotes members, at most one of them bad
QuotesObjects ==
  {JObj(s) : s \in SeqsUpTo(GoodEntries, MaxQuotes)}
    \cup UNION {{JObj(InsertAt(s, i, x)) : i \in 0..Len(s), x \in BadEntries} :
                  s \in SeqsUpTo(GoodEntries, MaxQuotes - 1)}

\* an error body of the server
ErrorBody == JObj(<< <<W("code"), JNum(42210000, 0)>>, <<W("message"), JStr(W("invalid symbol"))>> >>)

\* bodies of other shapes
OtherBodies ==
  {ErrorBody,
   JObj(<< <<W("code"), JStr(W("x"))>>, <<W("message"), JStr(W("invalid symbol"))>> >>),
   JObj(<< <<W("message"), JStr(W("invalid symbol"))>> >>),
   JObj(<<>>),
   JObj(<< <<W("quotes"), JNull>> >>),
   JObj(<< <<W("quotes"), JObj(<<>>)>>, <<W("quotes"), JObj(<<>>)>> >>),
   JObj(<< <<W("quotes"), JObj(<< <<W("A"), PointTSLA>> >>)>>, <<W("next_page_token"), JNull>> >>),
   JObj(<< <<W("quotes"), JObj(<< <<W("B"), PointAAPL>> >>)>>,
           <<W("code"), JNum(42210000, 0)>>, <<W("message"), JStr(W("invalid symbol"))>> >>),
   JNull,
   Raw(<<>>),
   Raw(W("<html>Bad Gateway</html>"))}

Bodies == {JObj(<< <<W("quotes"), q>> >>) : q \in QuotesObjects} \cup OtherBodies

(***************************************************************************)
(* The call.                                                               *)
(***************************************************************************)
NoRequest == [path |-> <<>>, query |-> <<>>]

Init ==
  /\ pc = "idle"
  /\ args = <<>>
  /\ input = LastQuoteReq_new(<<>>)
  /\ request = NoRequest
  /\ status = 0
  /\ body = Absent
  /\ result = NoResult
  /\ first = NoResult
  /\ nSend = 0
  /\ nParse = 0
  /\ nParseErr = 0

\* the caller constructs the input with LastQuoteReq::new
NewReq(lists) ==
  /\ pc = "idle"
  /\ \E symbols \in lists :
       /\ args' = symbols
       /\ input' = LastQuoteReq_new(symbols)
  /\ pc' = "new"
  /\ UNCHANGED <<request, status, body, result, first, nSend, nParse, nParseErr>>

\* the caller sets the feed with with_feed
WithFeed ==
  /\ pc = "new"
  /\ \E f \in Feed : input' = with_feed(input, f)
  /\ UNCHANGED <<pc, args, request, status, body, result, first, nSend, nParse, nParseErr>>

\* the path and the query are derived from the input
BuildRequest ==
  /\ pc = "new"
  /\ request' = [path |-> path(input), query |-> query(input)]
  /\ pc' = "built"
  /\ UNCHANGED <<args, input, status, body, result, first, nSend, nParse, nParseErr>>

\* the request is handed to the transport
Send ==
  /\ pc = "built"
  /\ nSend' = nSend + 1
  /\ pc' = "sent"
  /\ UNCHANGED <<args, input, request, status, body, result, first, nParse, nParseErr>>

\* the transport returns a response
Respond ==
  /\ pc = "sent"
  /\ \E st \in StatusCodes, b \in Bodies :
       /\ status' = st
       /\ body' = b
  /\ pc' = "returned"
  /\ UNCHANGED <<args, input, request, result, first, nSend, nParse, nParseErr>>

\* the transport fails or is cancelled: its error goes to the caller as it is
Abort ==
  /\ pc = "sent"
  /\ pc' = "aborted"
  /\ UNCHANGED <<args, input, request, status, body, result, first, nSend, nParse, nParseErr>>

\* an evaluation that issues the call again when the body does not decode
Evaluate_retry ==
  /\ pc = "returned"
  /\ result' \in Get_evaluate(status, body)
  /\ nParse' = nParse + (IF status \in OkStatuses THEN 1 ELSE 0)
  /\ nParseErr' = nParseErr + (IF status \notin OkStatuses /\ ErrVariant(status) # "" THEN 1 ELSE 0)
  /\ pc' = IF result'.tag = "ConversionError" THEN "built" ELSE "done"
  /\ UNCHANGED <<args, input, request, status, body, first, nSend>>

\* the response is routed by its status and decoded
Evaluate ==
  /\ pc = "returned"
  /\ result' \in Get_evaluate(status, body)
  /\ nParse' = nParse + (IF status \in OkStatuses THEN 1 ELSE 0)
  /\ nParseErr' = nParseErr + (IF status \notin OkStatuses /\ ErrVariant(status) # "" THEN 1 ELSE 0)
  /\ pc' = "done"
  /\ UNCHANGED <<args, input, request, status, body, first, nSend>>

\* the same input, status and body are evaluated a second time
Replay ==
  /\ pc = "done"
  /\ first = NoResult
  /\ first' = result
  /\ result' = NoResult
  /\ pc' = "returned"
  /\ UNCHANGED <<args, input, request, status, body, nSend, nParse, nParseErr>>

Next ==
  \/ NewReq(CallSymbolLists)
  \/ WithFeed
  \/ BuildRequest
  \/ Send
  \/ Respond
  \/ Abort
  \/ Evaluate

\* one call, from the construction of its input to its outcome
Spec == Init /\ [][Next]_vars

NextQuery ==
  \/ NewReq(SymbolLists)
  \/ WithFeed
  \/ BuildRequest

\* the construction of the request, over every bounded symbol list
SpecQuery == Init /\ [][NextQuery]_vars

NextTwice ==
  \/ Next
  \/ Replay

\* one call whose response is evaluated twice
SpecTwice == Init /\ [][NextTwice]_vars

(***************************************************************************)
(* Helpers of the properties.                                              *)
(***************************************************************************)
RECURSIVE Split(_, _)
\* the pieces of s between the occurrences of sep (str::split: one piece
\* more than there are separators, so one empty piece for an empty s)
Split(s, sep) ==
  IF \A i \in 1..Len(s) : s[i] # sep THEN <<s>>
  ELSE LET i == CHOOSE j \in 1..Len(s) : s[j] = sep /\ \A h \in 1..(j - 1) : s[h] # sep
       IN <<SubSeq(s, 1, i - 1)>> \o Split(SubSeq(s, i + 1, Len(s)), sep)

\* the names of the parameters of a query string, in order
ParamNames(q) == [i \in 1..Len(Split(q, "&")) |-> Split(Split(q, "&")[i], "=")[1]]

\* the "quotes" object of a body that has one
QuotesOf(b) == Members(b, W("quotes"))[1]

\* the names of the members of an object
NamesOf(v) == {v.o[i][1] : i \in 1..Len(v.o)}

\* the value an object's member ends up with when the members are inserted
\* into a map in document order
LastOf(v, name) == Members(v, name)[Len(Members(v, name))]

\* the rational r is the number the JSON literal v denotes
SameNumber(r, v) == v.k = "num" /\ r.num * Pow10(v.e) = v.n * r.den

\* the JSON value is an RFC 3339 timestamp / a decimal / an unsigned integer
IsTimestamp(v) ==
  v.k = "str" /\ v.s \in {W("2022-04-12T17:26:45.009288296Z"),
                          W("2022-04-12T19:26:45.009288296+02:00"),
                          W("2022-04-12T17:26:44.962998616Z")}
IsDecimal(v) == v.k = "num"
IsUnsigned(v) == v.k = "num" /\ v.e = 0 /\ v.n >= 0

\* the body lacks a "quotes" object, or one of its records is no object, or
\* lacks one of t, ap, as, bp, bs, or has one of them of the wrong type
Malformed(b) ==
  \/ b.k # "obj"
  \/ Len(Members(b, W("quotes"))) = 0
  \/ \E i \in 1..Len(Members(b, W("quotes"))) :
       LET q == Members(b, W("quotes"))[i]
       IN \/ q.k # "obj"
          \/ \E j \in 1..Len(q.o) :
               LET r == q.o[j][2]
               IN \/ r.k # "obj"
                  \/ \E f \in PointFields : Len(Members(r, f)) = 0
                  \/ \E v \in Range(Members(r, W("t"))) : ~IsTimestamp(v)
                  \/ \E v \in Range(Members(r, W("ap")) \o Members(r, W("bp"))) : ~IsDecimal(v)
                  \/ \E v \in Range(Members(r, W("as")) \o Members(r, W("bs"))) : ~IsUnsigned(v)

\* the decode steps made so far
nDecode == nParse + nParseErr

(***************************************************************************)
(* Properties.                                                             *)
(***************************************************************************)
\* C1: a response with status 422 is routed to the InvalidInput error,
\* whatever its body: Get::parse is never invoked for it and the caller
\* never receives an Ok.
C1_ErrorStatusRouting ==
  (pc = "done" /\ status = UNPROCESSABLE_ENTITY) =>
    /\ result.tag = "InvalidInput"
    /\ result.tag # "Ok"
    /\ nParse = 0

\* a 422 response whose body is a well-formed, non-empty quotes document
C1_Witness ==
  /\ pc = "done"
  /\ status = UNPROCESSABLE_ENTITY
  /\ ~Malformed(body)
  /\ QuotesOf(body).o # <<>>

\* C2: for a status other than 200 and 422 the outcome is the unexpected
\* status error carrying exactly the received status and the received body;
\* neither Get::parse nor Get::parse_err is applied.
C2_UnknownStatusFallback ==
  (pc = "done" /\ status \notin {OK, UNPROCESSABLE_ENTITY}) =>
    /\ result.tag = "UnexpectedStatus"
    /\ result.status = status
    /\ result.bytes = body
    /\ nParse = 0
    /\ nParseErr = 0

\* a 404 response whose body would decode as an ApiError
C2_Witness ==
  /\ pc = "done"
  /\ status = 404
  /\ body = ErrorBody
  /\ result.bytes = ErrorBody

\* C3: a successful decode yields exactly one Quote per key of the "quotes"
\* collection and no others, each with the key as symbol and with time,
\* ask_price, ask_size, bid_price, bid_size taken from t, ap, as, bp, bs of
\* the key's record (for a key the document repeats, the record the map
\* keeps); the length is the number of keys, whatever symbols were requested.
C3_OneQuotePerKey ==
  (pc = "done" /\ status = OK /\ result.tag = "Ok") =>
    /\ Len(result.quotes) = Cardinality(NamesOf(QuotesOf(body)))
    /\ \A k \in NamesOf(QuotesOf(body)) :
         Cardinality({i \in 1..Len(result.quotes) : result.quotes[i].symbol = k}) = 1
    /\ \A i \in 1..Len(result.quotes) :
         /\ result.quotes[i].symbol \in NamesOf(QuotesOf(body))
         /\ LET r == LastOf(QuotesOf(body), result.quotes[i].symbol)
            IN /\ result.quotes[i].time = DateTime_from(Members(r, W("t"))[1]).val
               /\ SameNumber(result.quotes[i].ask_price, Members(r, W("ap"))[1])
               /\ result.quotes[i].ask_size = Members(r, W("as"))[1].n
               /\ SameNumber(result.quotes[i].bid_price, Members(r, W("bp"))[1])
               /\ result.quotes[i].bid_size = Members(r, W("bs"))[1].n

\* symbols A and B were requested and the response holds a record for A only:
\* the caller receives one Quote
C3_Witness ==
  /\ pc = "done"
  /\ status = OK
  /\ result.tag = "Ok"
  /\ args = <<W("A"), W("B")>>
  /\ NamesOf(QuotesOf(body)) = {W("A")}
  /\ Len(result.quotes) = 1

\* C4: the query has a feed parameter exactly when a feed was set (none at
\* all when it was not), always has the symbols parameter, and symbols comes
\* before feed.
C4_FeedIffSet ==
  (pc = "built") =>
    LET names == ParamNames(request.query)
    IN /\ (\E i \in 1..Len(names) : names[i] = W("feed")) <=> (input.feed # "None")
       /\ \E i \in 1..Len(names) : names[i] = W("symbols")
       /\ \A i, j \in 1..Len(names) :
            (names[i] = W("symbols") /\ names[j] = W("feed")) => i < j

\* a request for two symbols with the SIP feed
C4_Witness ==
  /\ pc = "built"
  /\ input.feed = "SIP"
  /\ Len(args) = 2
  /\ ParamNames(request.query) = <<W("symbols"), W("feed")>>

\* C5: LastQuoteReq::new stores the symbols comma-joined, in the order
\* given and with duplicates kept (for a non-empty list of comma-free
\* symbols the comma-separated items are the symbols given); an empty list
\* gives an empty value.
C5_JoinKeepsAll ==
  (pc \in {"new", "built"}) =>
    /\ (args = <<>>) => (input.symbols = <<>>)
    /\ (args # <<>> /\ \A i \in 1..Len(args) : "," \notin Range(args[i])) =>
         /\ Len(Split(input.symbols, ",")) = Len(args)
         /\ \A i \in 1..Len(args) : Split(input.symbols, ",")[i] = args[i]

\* the same symbol given twice
C5_Witness ==
  /\ pc = "new"
  /\ args = <<W("B"), W("B")>>
  /\ Split(input.symbols, ",") = <<W("B"), W("B")>>

\* C6 (as stated): two evaluations of the same input, status and body give
\* identical results, the Quotes in the same order.
C6_SameResult ==
  (pc = "done" /\ first # NoResult) => result = first

\* C6 (amended): two evaluations of the same input, status and body give the
\* same kind of outcome with the same status, error and bytes, and on a
\* success decode the same Quotes, as many of them, in possibly another order.
C6_SameUpToOrder ==
  (pc = "done" /\ first # NoResult) =>
    /\ [result EXCEPT !.quotes = <<>>] = [first EXCEPT !.quotes = <<>>]
    /\ Len(result.quotes) = Len(first.quotes)
    /\ Range(result.quotes) = Range(first.quotes)

\* a body decoded twice, the Quotes in two different orders
C6_Witness ==
  /\ pc = "done"
  /\ first # NoResult
  /\ result.tag = "Ok"
  /\ result.quotes # first.quotes

\* C7: every (status, body) the transport returns has an outcome, all its
\* possible outcomes are of one kind, and the kind is one of Ok,
\* ConversionError, InvalidInput, UnexpectedStatus.
C7_ExactlyOneOutcome ==
  /\ (pc \in {"returned", "done"}) =>
       /\ Get_evaluate(status, body) # {}
       /\ Cardinality({r.tag : r \in Get_evaluate(status, body)}) = 1
       /\ \A r \in Get_evaluate(status, body) :
            r.tag \in {"Ok", "ConversionError", "InvalidInput", "UnexpectedStatus"}
  /\ (pc = "done") => result \in Get_evaluate(status, body)

\* a 200 response that is not JSON ends as a ConversionError
C7_Witness ==
  /\ pc = "done"
  /\ status = OK
  /\ body.k = "raw"
  /\ result.tag = "ConversionError"

C9_ErrBodyPreserved ==
  (pc = "done" /\ status = UNPROCESSABLE_ENTITY) =>
    /\ nParseErr = 1
    /\ IF ApiError_from(body).ok
       THEN /\ result.structured
            /\ result.api.code = Members(body, W("code"))[1].n
            /\ result.api.message = Members(body, W("message"))[1].s
            /\ result.bytes = Absent
       ELSE /\ ~result.structured
            /\ result.api = NoApiError
            /\ result.bytes = body

\* a 422 response whose body is not JSON: the caller has its bytes
C9_Witness ==
  /\ pc = "done"
  /\ status = UNPROCESSABLE_ENTITY
  /\ body = Raw(W("<html>Bad Gateway</html>"))
  /\ ~result.structured
  /\ result.bytes = Raw(W("<html>Bad Gateway</html>"))

\* the order of the steps of a call, as a condition on every state
C10_Order ==
  /\ nSend <= 1
  /\ nDecode <= 1
  /\ (nSend > 0) => (request = [path |-> path(input), query |-> query(input)])
  /\ (nDecode > 0) => (nSend = 1 /\ pc = "done" /\ status \in StatusCodes)
  /\ (pc = "done" /\ status \in {OK, UNPROCESSABLE_ENTITY}) => (nDecode = 1)
  /\ (pc = "aborted") => (nDecode = 0)

\* C10: the request is built before the one transport call; at most one
\* decode step happens, and only after the transport returned; a completed
\* call with status 200 or 422 has exactly one decode step; an aborted call
\* has none and stays aborted; a completed call is not issued or decoded again.
C10_OneCallOneDecode ==
  /\ []C10_Order
  /\ [][(pc \in {"aborted", "done"}) => (pc' = pc /\ nSend' = nSend /\ nDecode' = nDecode)]_vars

\* a completed call with status 200: one transport call, one Get::parse
C10_Witness ==
  /\ pc = "done"
  /\ status = OK
  /\ nSend = 1
  /\ nParse = 1
  /\ nParseErr = 0

====
